---- MODULE Spec2Model ----
(***************************************************************************)
(* Port-hunting bind/retry protocol of the HTTP server factory             *)
(* (http-server/lib/main.js and its HTTP/2 twin).  One factory call        *)
(* resolves `port` and `max` into closure variables; every call of the     *)
(* returned bind procedure creates one server, registers `errorListener`   *)
(* and `onListen`, and issues `server.listen( port, hostname )`.           *)
(* The disposable HTTP server (disposable-http-server/lib/main.js) is built *)
(* on that factory: it serves its HTML and JavaScript once and closes       *)
(* itself when the response which ends the interaction has finished.        *)
(***************************************************************************)
EXTENDS Integers, Sequences, FiniteSets, TLC

\* ---------------------------------------------------------------- bounds
MaxPort == 2
MaxInvocations == 2
MaxEmit == 1
MaxRequests == 2
MaxConnections == 2
MaxBytes == 2

\* ------------------------------------------------------------- constants
\* `void 0`: an option that was not provided
Undef == 0 - 1
\* no port: the server has no address / the error belongs to no listen call
NoPort == 0 - 1
\* DEFAULTS.port
DefaultPort == 0
\* a string option which was not provided
NoString == "(undefined)"
\* DEFAULTS.address
DefaultAddress == "127.0.0.1"

\* the `null` passed in the callback's error slot, and "nothing thrown"
Null == [code |-> "null", id |-> 0]
NoErr == [code |-> "none", id |-> 0]

\* ports other processes may hold, and the ports the platform assigns for port 0
FixturePorts == 1..MaxPort
EphemeralPorts == {MaxPort + 2, MaxPort + 3}

VARIABLES
    opts,           \* validated options: [port, maxport, hostname, address],
                    \* Undef / NoString when absent
    port,           \* closure variable `port` of factory()
    max,            \* closure variable `max` of factory()
    hostname,       \* closure variable `hostname` of factory()
    occupied,       \* ports held by other processes (fixture listeners)
    servers,        \* one record per call of the bind procedure
    nemits,         \* number of 'error' events emitted on settled servers
    factoryArgsValid, \* the arguments of factory() were valid ones
    factoryError,   \* what factory() threw, "none" when it returned httpServer
    typeErrors,     \* calls of the bind procedure which threw a TypeError
    \* the disposable server ( httpServer( options, clbk ) of part_000 )
    javascript,     \* `opts.javascript` is set: JavaScript content was provided
    open,           \* `opts.open`
    payload,        \* the bytes of `opts.html` and of `opts.javascript`
    openCalls,      \* calls of `openURL`: what `server.address()` returned, and the URL
    server,         \* closure variable `server`: "undefined" until onServer ran
    isClosing,      \* closure variable `isClosing`
    requests,       \* one record per request received, in order of receipt
    nextTicks,      \* callbacks queued with nextTick, not yet run
    closeCalls,     \* calls of `server.close()`
    timers,         \* force-destroy timers scheduled with setTimeout
    fired,          \* force-destroy timers which have fired
    sockets,        \* one record per connection accepted, in order of acceptance
    connections,    \* closure variable `connections`: key -> socket
    listeners,      \* events of the server which onServer listens for
    clbkCalls,      \* arguments of the calls of `clbk`
    closed,         \* the server has emitted 'close'
    \* two disposable servers alive at once
    instances,      \* the closure variables of each: `connections` (the store
                    \* it was given), `isClosing`, and its calls, timers, sockets
    stores          \* the stores which createStore() made: key -> socket

\* the state of the factory
fvars == <<opts, port, max, hostname, occupied, servers, nemits, factoryArgsValid, factoryError, typeErrors>>

\* the state of the disposable server
svars == <<javascript, open, payload, openCalls, server, isClosing, requests, nextTicks,
           closeCalls, timers, fired, sockets, connections, listeners, clbkCalls, closed>>

\* the state of two disposable servers
tvars == <<instances, stores>>

dvars == <<svars, tvars>>

vars == <<opts, port, max, hostname, occupied, servers, nemits, factoryArgsValid, factoryError, typeErrors, dvars>>

\* --------------------------------------------------------------- helpers
Last(s) == s[Len(s)]

\* resolution of the closure variable `port`
ResolvePort(o) == IF o.port = Undef THEN DefaultPort ELSE o.port

\* a buggy default which leaves room for one retry
ResolveMaxPlusOne(o, p) == IF o.maxport = Undef THEN p + 1 ELSE o.maxport

\* resolution of the closure variable `max`
ResolveMax(o, p) == IF o.maxport = Undef THEN p ELSE o.maxport

\* a string option which is neither absent nor empty ( `if ( opts.hostname )` )
Truthy(str) == str # NoString /\ str # ""

\* a buggy resolution which prefers the address to the hostname
ResolveHostnameAddressFirst(o) ==
    IF Truthy(o.address) THEN o.address
    ELSE IF Truthy(o.hostname) THEN o.hostname
    ELSE DefaultAddress

\* resolution of the closure variable `hostname`
ResolveHostname(o) ==
    IF Truthy(o.hostname) THEN o.hostname
    ELSE IF Truthy(o.address) THEN o.address
    ELSE DefaultAddress

\* the configured port, as the options keep it
ConfigPort == ResolvePort(opts)

\* a server as created by the bind procedure, before its first listen call
NewServer ==
    [ listens            |-> << >>,    \* ports of the listen calls issued
      hosts              |-> << >>,    \* hosts of the listen calls issued
      pending            |-> FALSE,    \* the last listen call is outstanding
      address            |-> NoPort,   \* server.address().port once bound
      errorListeners     |-> 0,        \* server.on( 'error', ... )
      listeningListeners |-> 0,        \* server.once( 'listening', ... )
      errors             |-> << >>,    \* 'error' events handled by errorListener:
                                       \* the error, the port of the listen call it
                                       \* answers, whether the server was listening,
                                       \* the port of the retry, the error thrown
      done               |-> << >> ]   \* calls of the completion callback

Attempting(s) == s.pending
Bound(s) == s.address # NoPort
Failed(s) ==
    /\ ~s.pending
    /\ s.address = NoPort
    /\ Len(s.errors) > 0
    /\ Last(s.errors).thrown # NoErr

\* ports in use: fixtures and this process's own bound servers
InUse == occupied \cup { servers[i].address : i \in { j \in 1..Len(servers) : Bound(servers[j]) } }

\* ------------------------------------------------- the platform's listen
\* server.listen( p, hostname ) on server record s.  On a server which is
\* already listening the call either throws ERR_SERVER_ALREADY_LISTEN
\* (relistenThrows) or, on older platforms, returns without starting a new
\* bind.
Listen(s, p) ==
    [ s EXCEPT !.listens = Append(@, p),
               !.hosts = Append(@, hostname),
               !.pending = ~Bound(s) ]

ListenThrows(s, relistenThrows) == Bound(s) /\ relistenThrows

\* ------------------------------------------------------------- factory()
\* the arguments of a factory call: their number, the kind of the first one
\* and the kind of the second one
FactoryArgs ==
    { a \in [ nargs : 0..2, first : {"function", "options", "invalid"},
                           second : {"function", "other"} ] :
        /\ a.nargs = 0 => a.first = "options"
        /\ a.nargs < 2 => a.second = "function"
        /\ a.nargs = 2 => a.first # "function" }

\* the options which pass validate(), as validate() copies them to `opts`
NoOptions == [ port |-> Undef, maxport |-> Undef, hostname |-> NoString, address |-> NoString ]
ValidOptions ==
    [ port : {Undef} \cup 1..(MaxPort - 1), maxport : {Undef} \cup 0..(MaxPort + 1),
      hostname : {NoString}, address : {NoString} ]

\* options which name a host: one port range, every form of hostname and address
HostOptions ==
    [ port : {1}, maxport : {Undef, MaxPort},
      hostname : {NoString, "", "localhost"}, address : {NoString, "", "0.0.0.0"} ]

\* a buggy factory which does not test its second argument
FactoryErrorNoListenerCheck(a) ==
    IF a.nargs >= 1 /\ a.first = "invalid" THEN "validate" ELSE "none"

\* the argument checks of factory(): what it throws, "none" when it returns
FactoryError(a) ==
    IF a.nargs = 1
    THEN IF a.first = "function" THEN "none"
         ELSE IF a.first = "invalid" THEN "validate" ELSE "none"
    ELSE IF a.nargs > 1
    THEN IF a.second # "function" THEN "TypeError"
         ELSE IF a.first = "invalid" THEN "validate" ELSE "none"
    ELSE "none"

\* the state factory() leaves behind when called with arguments a and, when
\* they are valid options, the validated options o
Factory(a, o) ==
    /\ factoryError = FactoryError(a)
    /\ factoryArgsValid = ~( \/ a.nargs >= 1 /\ a.first = "invalid"
                             \/ a.nargs = 2 /\ a.second # "function" )
    /\ opts = o
    /\ IF factoryError = "none"
       THEN /\ port = ResolvePort(opts)
            /\ max = ResolveMax(opts, port)
            /\ hostname = ResolveHostname(opts)
       ELSE /\ port = Undef
            /\ max = Undef
            /\ hostname = NoString

\* the state after factory() was called with options drawn from Options
InitWith(Options) ==
    /\ \E a \in FactoryArgs :
          \E o \in ( IF a.nargs >= 1 /\ a.first = "options" THEN Options ELSE {NoOptions} ) :
             Factory(a, o)
    /\ occupied \in SUBSET FixturePorts
    /\ servers = << >>
    /\ nemits = 0
    /\ typeErrors = 0

\* no two disposable servers
NoInstances == instances = << >> /\ stores = << >>

\* no disposable server has been constructed
NoDisposable ==
    /\ NoInstances
    /\ javascript = FALSE
    /\ open = FALSE
    /\ payload = << >>
    /\ openCalls = << >>
    /\ server = "undefined"
    /\ isClosing = FALSE
    /\ requests = << >>
    /\ nextTicks = << >>
    /\ closeCalls = 0
    /\ timers = 0
    /\ fired = 0
    /\ sockets = << >>
    /\ connections = << >>
    /\ listeners = {}
    /\ clbkCalls = << >>
    /\ closed = FALSE

Init == InitWith(ValidOptions) /\ NoDisposable

InitHost == InitWith(HostOptions) /\ NoDisposable

\* ------------------------------------------------------ httpServer( done )
\* a buggy bind procedure which tests its argument after it has created the
\* server and called listen
httpServerLateCheck(doneIsFunction) ==
    /\ factoryError = "none"
    /\ Len(servers) + typeErrors < MaxInvocations
    /\ LET created == [ NewServer EXCEPT !.errorListeners = 1,
                                         !.listeningListeners = 1 ]
       IN servers' = Append(servers, Listen(created, port))
    /\ typeErrors' = IF doneIsFunction THEN typeErrors ELSE typeErrors + 1
    /\ UNCHANGED <<opts, port, max, hostname, occupied, nemits, factoryArgsValid, factoryError, dvars>>

httpServer(doneIsFunction) ==
    /\ factoryError = "none"
    /\ Len(servers) + typeErrors < MaxInvocations
    /\ IF ~doneIsFunction
       THEN /\ typeErrors' = typeErrors + 1
            /\ UNCHANGED servers
       ELSE /\ LET created == [ NewServer EXCEPT !.errorListeners = 1,
                                                 !.listeningListeners = 1 ]
               IN servers' = Append(servers, Listen(created, port))
            /\ UNCHANGED typeErrors
    /\ UNCHANGED <<opts, port, max, hostname, occupied, nemits, factoryArgsValid, factoryError, dvars>>

\* -------------------------------------------------- errorListener( error )
\* a buggy guard which retries whatever the error's code
RetryAnyCode(error, p) == p <= max

\* the guard of the retry, evaluated after `port += 1`
Retry(error, p) == error.code = "EADDRINUSE" /\ p <= max

\* a buggy increment which stops at the ceiling
NextPortCapped(error, p) == IF error.code = "EADDRINUSE" /\ p < max THEN p + 1 ELSE p

\* the candidate port after the error
NextPort(error, p) == IF error.code = "EADDRINUSE" THEN p + 1 ELSE p

\* a buggy handler which reports the error through the callback's error slot
RaiseViaCallback(s, i, error, attempt) ==
    [ s EXCEPT !.errors = Append(@, [ error |-> error, attempt |-> attempt,
                                      bound |-> Bound(s),
                                      relisten |-> NoPort, thrown |-> NoErr ]),
               !.done = Append(@, [ error |-> error, server |-> i ]) ]

\* `throw error`
Raise(s, i, error, attempt) ==
    [ s EXCEPT !.errors = Append(@, [ error |-> error, attempt |-> attempt,
                                      bound |-> Bound(s),
                                      relisten |-> NoPort, thrown |-> error ]) ]

\* a buggy retry which registers the error listener again for the new attempt
RelistenRegistering(s, error, attempt, p, relistenThrows) ==
    LET logged == [ s EXCEPT !.errors = Append(@, [ error |-> error, attempt |-> attempt,
                                                    bound |-> Bound(s),
                                                    relisten |-> p,
                                                    thrown |-> NoErr ]),
                             !.errorListeners = @ + 1 ]
    IN Listen(logged, p)

\* `server.listen( port, hostname ); return;`
Relisten(s, error, attempt, p, relistenThrows) ==
    LET alreadyErr == [ code |-> "ERR_SERVER_ALREADY_LISTEN", id |-> error.id ]
        logged == [ s EXCEPT !.errors = Append(@, [ error |-> error, attempt |-> attempt,
                                                    bound |-> Bound(s),
                                                    relisten |-> p,
                                                    thrown |-> IF ListenThrows(s, relistenThrows) THEN alreadyErr ELSE NoErr ]) ]
    IN Listen(logged, p)

\* the handler, run for server i on `error`; attempt is the port of the
\* listen call which reported the error, NoPort when none did; relistenThrows
\* is the platform's answer to a listen call on a listening server
errorListener(i, error, attempt, relistenThrows) ==
    LET s == [ servers[i] EXCEPT !.pending = FALSE ]
        p == NextPort(error, port)
    IN /\ port' = p
       /\ IF Retry(error, p)
          THEN servers' = [ servers EXCEPT ![i] = Relisten(s, error, attempt, p, relistenThrows) ]
          ELSE servers' = [ servers EXCEPT ![i] = Raise(s, i, error, attempt) ]

\* ---------------------------------------------------------------- onListen()
\* arguments of the completion callback
DoneArgs(i) == [ error |-> Null, server |-> i ]

onListen(s, i) == [ s EXCEPT !.done = Append(@, DoneArgs(i)) ]

\* -------------------------------------------------------- platform events
\* a new error object delivered to server record s: the id tells the error
\* objects of one server apart
NewError(s, code) == [ code |-> code, id |-> Len(s.errors) + 1 ]

\* the outstanding listen call of server i succeeds: 'listening' is emitted
Listening(i) ==
    LET s == servers[i]
        p == Last(s.listens)
    IN /\ Attempting(s)
       /\ \E q \in (IF p = 0 THEN EphemeralPorts ELSE {p}) \ InUse :
            LET b == [ s EXCEPT !.pending = FALSE, !.address = q ]
            IN servers' = [ servers EXCEPT ![i] =
                   IF s.listeningListeners > 0
                   THEN onListen([ b EXCEPT !.listeningListeners = 0 ], i)
                   ELSE b ]
       /\ UNCHANGED <<opts, port, max, hostname, occupied, nemits, factoryArgsValid, factoryError, typeErrors, dvars>>

\* the outstanding listen call of server i reports address-in-use
ListenInUse(i) ==
    LET s == servers[i]
        p == Last(s.listens)
    IN /\ Attempting(s)
       /\ p # 0
       /\ p \in InUse
       /\ errorListener(i, NewError(s, "EADDRINUSE"), p, FALSE)
       /\ UNCHANGED <<opts, max, hostname, occupied, nemits, factoryArgsValid, factoryError, typeErrors, dvars>>

\* the outstanding listen call of server i reports another error (EACCES, ...)
ListenOtherError(i) ==
    LET s == servers[i]
    IN /\ Attempting(s)
       /\ errorListener(i, NewError(s, "EACCES"), Last(s.listens), FALSE)
       /\ UNCHANGED <<opts, max, hostname, occupied, nemits, factoryArgsValid, factoryError, typeErrors, dvars>>

\* an 'error' event on a server which is bound or has failed
\* ( server.emit( 'error', err ), or an error of the running server )
EmitError(i, code) ==
    LET s == servers[i]
    IN /\ nemits < MaxEmit
       /\ Bound(s) \/ Failed(s)
       /\ \E relistenThrows \in BOOLEAN :
             errorListener(i, NewError(s, code), NoPort, relistenThrows)
       /\ nemits' = nemits + 1
       /\ UNCHANGED <<opts, max, hostname, occupied, factoryArgsValid, factoryError, typeErrors, dvars>>

Next ==
    \/ \E doneIsFunction \in BOOLEAN : httpServer(doneIsFunction)
    \/ \E i \in 1..Len(servers) : Listening(i)
    \/ \E i \in 1..Len(servers) : ListenInUse(i)
    \/ \E i \in 1..Len(servers) : ListenOtherError(i)
    \/ \E i \in 1..Len(servers), code \in {"EADDRINUSE", "ECONNRESET"} : EmitError(i, code)

Spec == Init /\ [][Next]_vars

\* the same bind procedure, for factories whose options name a host
SpecHost == InitHost /\ [][Next]_vars

\* ====================================================== disposable server
\* the paths clients ask for
Urls == {"/", "/index.html", "/bundle.js", "/beep"}

\* the paths a browser asks for: the page and the bundle it refers to
PageUrls == {"/", "/bundle.js"}

\* the response has not been ended
NotSent == 0

\* no Content-Type header, no body
NoType == "(none)"
Empty == "(empty)"

\* no socket: the table has no entry for the key
NoSocket == 0

\* `socket.remoteAddress + ':' + socket.remotePort` of the peers which are
\* connected as the connection is accepted
RemoteKeys == { <<"127.0.0.1", p>> : p \in 1..MaxConnections }

\* the key of a socket whose peer has gone as the connection is accepted:
\* remoteAddress and remotePort are undefined
UndefinedKey == <<"undefined", Undef>>

\* no Content-Length header was set
NoLength == 0 - 1

\* `opts.javascript` when no JavaScript was provided
NoBuffer == << >>

\* the bytes which the payloads are made of: an ASCII character, the lead
\* byte and the continuation byte of a two-byte character, and a byte which
\* no UTF-8 text holds
Bytes == {97, 195, 169, 255}
Leads == {195}
Continuations == {169}

\* content given as a Buffer
Buffers == UNION { [ 1..n -> Bytes ] : n \in 1..MaxBytes }

\* the characters of the strings: "a", e with an acute accent, and the
\* replacement character which the decoder writes for bytes it cannot decode
Chars == {"a", "U+00E9"}
Replacement == "U+FFFD"

\* content given as a string
Strings == UNION { [ 1..n -> Chars ] : n \in 1..MaxBytes }

\* the UTF-8 encoding of a character
Utf8(c) == IF c = "a" THEN <<97>> ELSE IF c = "U+00E9" THEN <<195, 169>> ELSE <<239, 191, 189>>

\* string2buffer( str ): the UTF-8 encoding of a string
RECURSIVE string2buffer(_)
string2buffer(str) == IF str = << >> THEN << >> ELSE Utf8(Head(str)) \o string2buffer(Tail(str))

\* buffer.toString(): the buffer decoded as UTF-8; a byte sequence which is
\* not the encoding of a character is decoded as the replacement character
RECURSIVE toString(_)
toString(buf) ==
    IF buf = << >> THEN << >>
    ELSE IF Head(buf) < 128 THEN <<"a">> \o toString(Tail(buf))
    ELSE IF Head(buf) \in Leads /\ Tail(buf) # << >> /\ Head(Tail(buf)) \in Continuations
         THEN <<"U+00E9">> \o toString(Tail(Tail(buf)))
    ELSE <<Replacement>> \o toString(Tail(buf))

\* byteLength( str ) of a Buffer: Buffer.byteLength( str.toString() ), and
\* Buffer.byteLength( str ) of the platforms which convert their argument to
\* a string themselves
byteLength(buf) == Len(string2buffer(toString(buf)))

\* Buffer.byteLength( undefined ) of those platforms: the length of 'undefined'
byteLengthUndefined == 9

\* the bytes of static/index.html, the boilerplate page
Boilerplate == <<97>>

\* the bytes of a script
Script == <<97>>

\* the contents a server may be given: HTML or a script, as a string which
\* httpServer converts or as a Buffer
Payloads == Buffers \cup { string2buffer(str) : str \in Strings }
Contents ==
    { [ html |-> h, javascript |-> NoBuffer ] : h \in Payloads }
        \cup { [ html |-> Boilerplate, javascript |-> js ] : js \in Payloads }

\* the boilerplate page, without and with a script
DefaultContents == { [ html |-> Boilerplate, javascript |-> js ] : js \in {NoBuffer, Script} }

Keys == RemoteKeys \cup {UndefinedKey}

\* the state after httpServer( options ) has returned: the factory was called
\* with the server options and requestListener, the server is being booted
InitServer(Opens, Given) ==
    /\ Factory([ nargs |-> 2, first |-> "options", second |-> "function" ], NoOptions)
    /\ occupied = {}
    /\ servers = << >>
    /\ nemits = 0
    /\ typeErrors = 0
    /\ open \in Opens
    /\ payload \in Given
    /\ javascript = (payload.javascript # NoBuffer)
    /\ openCalls = << >>
    /\ server = "undefined"
    /\ isClosing = FALSE
    /\ requests = << >>
    /\ nextTicks = << >>
    /\ closeCalls = 0
    /\ timers = 0
    /\ fired = 0
    /\ sockets = << >>
    /\ connections = [ k \in Keys |-> NoSocket ]
    /\ listeners = {}
    /\ clbkCalls = << >>
    /\ closed = FALSE

\* a server of the boilerplate page, with or without JavaScript, which
\* launches no browser
InitDisposable == InitServer({FALSE}, DefaultContents) /\ NoInstances

\* a server of any content
InitPayload == InitServer({FALSE}, Contents) /\ NoInstances

\* the same server, with and without the `open` option
InitOpen == InitServer(BOOLEAN, DefaultContents) /\ NoInstances

\* 'http://'+addr.address+':'+addr.port
URL(addr) == <<"http://", addr.address, ":", addr.port>>

\* the addresses `server.address()` may return: the hostname which the
\* factory resolved and, as the port is 0, a port which the system chose
Addresses == { [ address |-> hostname, port |-> p ] : p \in EphemeralPorts }

\* a buggy onServer which calls back before it listens for connections
onServerCallbackFirst ==
    /\ server = "undefined"
    /\ server' = "bound"
    /\ clbkCalls' = Append(clbkCalls, [ error |-> Null, server |-> "server",
                                        listeners |-> listeners ])
    /\ listeners' = {"connection", "close"}
    /\ IF open
       THEN \E addr \in Addresses :
                openCalls' = Append(openCalls, [ addr |-> addr, url |-> URL(addr), server |-> server' ])
       ELSE UNCHANGED openCalls
    /\ UNCHANGED <<javascript, open, payload, isClosing, requests, nextTicks, closeCalls, timers,
                   fired, sockets, connections, closed>>
    /\ UNCHANGED <<fvars, tvars>>

\* a buggy onServer which launches a browser whatever `opts.open` is
onServerOpens ==
    /\ server = "undefined"
    /\ server' = "bound"
    /\ listeners' = {"connection", "close"}
    /\ \E addr \in Addresses :
        openCalls' = Append(openCalls, [ addr |-> addr, url |-> URL(addr), server |-> server' ])
    /\ clbkCalls' = Append(clbkCalls, [ error |-> Null, server |-> "server",
                                        listeners |-> listeners' ])
    /\ UNCHANGED <<javascript, open, payload, isClosing, requests, nextTicks, closeCalls, timers,
                   fired, sockets, connections, closed>>
    /\ UNCHANGED <<fvars, tvars>>

\* onServer( null, _server ): the server is bound; `server = _server`, the
\* listeners are attached, the browser is launched `if ( opts.open )`, then
\* `clbk( null, server )`
onServer ==
    /\ server = "undefined"
    /\ server' = "bound"
    /\ listeners' = {"connection", "close"}
    /\ IF open
       THEN \E addr \in Addresses :
                openCalls' = Append(openCalls, [ addr |-> addr, url |-> URL(addr), server |-> server' ])
       ELSE UNCHANGED openCalls
    /\ clbkCalls' = Append(clbkCalls, [ error |-> Null, server |-> "server",
                                        listeners |-> listeners' ])
    /\ UNCHANGED <<javascript, open, payload, isClosing, requests, nextTicks, closeCalls, timers,
                   fired, sockets, connections, closed>>
    /\ UNCHANGED <<fvars, tvars>>

\* the server cannot be bound: errorListener of the factory throws the
\* error, and onServer is never called
bootThrows ==
    /\ server = "undefined"
    /\ server' = "failed"
    /\ UNCHANGED <<javascript, open, payload, openCalls, isClosing, requests, nextTicks,
                   closeCalls, timers, fired, sockets, connections, listeners, clbkCalls, closed>>
    /\ UNCHANGED <<fvars, tvars>>

\* --------------------------------------------------------- connections
\* the sockets which have not emitted 'close'
Open(i) == ~sockets[i].closed

\* the keys no open socket has
FreeKeys == { k \in RemoteKeys : \A i \in 1..Len(sockets) : sockets[i].key = k => ~Open(i) }

\* the key of the next peer which connects: two connected peers differ in
\* address or port, and the ports are handed out lowest first
NextKey == { k \in FreeKeys : \A j \in FreeKeys : k[2] <= j[2] }

\* onConnection( socket ): the server accepts a connection
onConnection(key) ==
    /\ server = "bound"
    /\ closeCalls = 0
    /\ nextTicks = << >>
    /\ Len(sockets) < MaxConnections
    /\ key \in NextKey \cup {UndefinedKey}
    /\ sockets' = Append(sockets, [ key |-> key, closed |-> FALSE, destroys |-> 0 ])
    /\ connections' = IF "connection" \in listeners
                      THEN [ connections EXCEPT ![key] = Len(sockets) + 1 ]
                      ELSE connections
    /\ UNCHANGED <<javascript, open, payload, openCalls, server, isClosing, requests, nextTicks, closeCalls, timers,
                   fired, listeners, clbkCalls, closed>>
    /\ UNCHANGED <<fvars, tvars>>

\* onClose() of onConnection: socket i emits 'close'
onSocketClose(i) ==
    /\ nextTicks = << >>
    /\ Open(i)
    /\ sockets' = [ sockets EXCEPT ![i].closed = TRUE ]
    /\ connections' = [ connections EXCEPT ![sockets[i].key] = NoSocket ]
    /\ UNCHANGED <<javascript, open, payload, openCalls, server, isClosing, requests, nextTicks, closeCalls, timers,
                   fired, listeners, clbkCalls, closed>>
    /\ UNCHANGED <<fvars, tvars>>

\* ------------------------------------------------------------- requests
\* a request as it is received: `closing` is the value of isClosing at that
\* moment, `status`, `type` and `body` the status code, the
\* Content-Type and the body of the ended response, `endedIn` the function
\* within whose call `response.end()` ran, `armed` tells that onFinish
\* listens for the response's 'finish'
NewRequest(url) ==
    [ url |-> url, closing |-> isClosing, status |-> NotSent,
      type |-> NoType, length |-> NoLength, body |-> Empty, endedIn |-> "", armed |-> FALSE,
      finished |-> FALSE, thrown |-> FALSE ]

\* notFound( request, response )
notFound(r) == [ r EXCEPT !.status = 404 ]

\* a buggy 503 response which is sent as a 404
unavailableNotFound(r) == [ r EXCEPT !.status = 404 ]

\* unavailable( request, response )
unavailable(r) == [ r EXCEPT !.status = 503 ]

\* sendHTML( request, response )
sendHTML(r) ==
    [ r EXCEPT !.status = 200, !.type = "text/html", !.length = byteLength(payload.html),
               !.body = "opts.html" ]

\* sendJavaScript( request, response ): without JavaScript content
\* byteLength( undefined ) throws on platforms which check the argument, and
\* the response is ended without a body on those which do not
sendJavaScript(r, byteLengthThrows) ==
    IF ~javascript /\ byteLengthThrows
    THEN [ r EXCEPT !.thrown = TRUE ]
    ELSE [ r EXCEPT !.status = 200, !.type = "text/javascript",
                    !.length = IF javascript THEN byteLength(payload.javascript)
                               ELSE byteLengthUndefined,
                    !.body = IF javascript THEN "opts.javascript" ELSE Empty ]

\* the response was ended within the call of fcn
EndedIn(r, fcn) == IF r.status # NotSent THEN [ r EXCEPT !.endedIn = fcn ] ELSE r

\* socket c has been neither closed nor destroyed
Alive(c) == Open(c) /\ sockets[c].destroys = 0

\* a request can arrive: the peer of some socket is connected and the socket
\* is alive
Readable == \E c \in 1..Len(sockets) : Alive(c) /\ sockets[c].key # UndefinedKey

\* a response can be handed to the platform: some socket is alive
Writable == \E c \in 1..Len(sockets) : Alive(c)

\* a buggy listener which does not test isClosing
requestListenerNoClosingCheck(url) ==
    /\ server = "bound"
    /\ nextTicks = << >>
    /\ Len(requests) < MaxRequests
    /\ Readable
    /\ LET id == Len(requests) + 1
           r == NewRequest(url)
       IN IF url = "/bundle.js"
          THEN /\ nextTicks' = Append(nextTicks, [ fcn |-> "sendJavaScript", request |-> id ])
               /\ requests' = Append(requests, [ r EXCEPT !.armed = TRUE ])
          ELSE IF url # "/" /\ url # "/index.html"
          THEN /\ requests' = Append(requests, EndedIn(notFound(r), "requestListener"))
               /\ UNCHANGED nextTicks
          ELSE /\ nextTicks' = Append(nextTicks, [ fcn |-> "sendHTML", request |-> id ])
               /\ requests' = Append(requests, [ r EXCEPT !.armed = ~javascript ])
    /\ UNCHANGED <<javascript, open, payload, openCalls, server, isClosing, closeCalls, timers,
                   fired, sockets, connections, listeners, clbkCalls, closed>>
    /\ UNCHANGED <<fvars, tvars>>

\* a buggy listener which lets every HTML response close the server
requestListenerArmsHTML(url) ==
    /\ server = "bound"
    /\ nextTicks = << >>
    /\ Len(requests) < MaxRequests
    /\ Readable
    /\ LET id == Len(requests) + 1
           r == NewRequest(url)
       IN IF isClosing
          THEN /\ requests' = Append(requests, EndedIn(unavailable(r), "requestListener"))
               /\ UNCHANGED nextTicks
          ELSE IF url = "/bundle.js"
          THEN /\ nextTicks' = Append(nextTicks, [ fcn |-> "sendJavaScript", request |-> id ])
               /\ requests' = Append(requests, [ r EXCEPT !.armed = TRUE ])
          ELSE IF url # "/" /\ url # "/index.html"
          THEN /\ requests' = Append(requests, EndedIn(notFound(r), "requestListener"))
               /\ UNCHANGED nextTicks
          ELSE /\ nextTicks' = Append(nextTicks, [ fcn |-> "sendHTML", request |-> id ])
               /\ requests' = Append(requests, [ r EXCEPT !.armed = TRUE ])
    /\ UNCHANGED <<javascript, open, payload, openCalls, server, isClosing, closeCalls, timers,
                   fired, sockets, connections, listeners, clbkCalls, closed>>
    /\ UNCHANGED <<fvars, tvars>>

\* a buggy requestListener which listens for the finish of a 404 response
requestListenerArmsNotFound(url) ==
    /\ server = "bound"
    /\ nextTicks = << >>
    /\ Len(requests) < MaxRequests
    /\ Readable
    /\ LET id == Len(requests) + 1
           r == NewRequest(url)
       IN IF isClosing
          THEN /\ requests' = Append(requests, EndedIn(unavailable(r), "requestListener"))
               /\ UNCHANGED nextTicks
          ELSE IF url = "/bundle.js"
          THEN /\ nextTicks' = Append(nextTicks, [ fcn |-> "sendJavaScript", request |-> id ])
               /\ requests' = Append(requests, [ r EXCEPT !.armed = TRUE ])
          ELSE IF url # "/" /\ url # "/index.html"
          THEN /\ requests' = Append(requests, EndedIn(notFound([ r EXCEPT !.armed = TRUE ]), "requestListener"))
               /\ UNCHANGED nextTicks
          ELSE /\ nextTicks' = Append(nextTicks, [ fcn |-> "sendHTML", request |-> id ])
               /\ requests' = Append(requests, [ r EXCEPT !.armed = ~javascript ])
    /\ UNCHANGED <<javascript, open, payload, openCalls, server, isClosing, closeCalls, timers,
                   fired, sockets, connections, listeners, clbkCalls, closed>>
    /\ UNCHANGED <<fvars, tvars>>

\* requestListener( request, response ), for a request of path url; the
\* platform runs the queued nextTick callbacks before it delivers an event
requestListener(url) ==
    /\ server = "bound"
    /\ nextTicks = << >>
    /\ Len(requests) < MaxRequests
    /\ Readable
    /\ LET id == Len(requests) + 1
           r == NewRequest(url)
       IN IF isClosing
          THEN /\ requests' = Append(requests, EndedIn(unavailable(r), "requestListener"))
               /\ UNCHANGED nextTicks
          ELSE IF url = "/bundle.js"
          THEN /\ nextTicks' = Append(nextTicks, [ fcn |-> "sendJavaScript", request |-> id ])
               /\ requests' = Append(requests, [ r EXCEPT !.armed = TRUE ])
          ELSE IF url # "/" /\ url # "/index.html"
          THEN /\ requests' = Append(requests, EndedIn(notFound(r), "requestListener"))
               /\ UNCHANGED nextTicks
          ELSE /\ nextTicks' = Append(nextTicks, [ fcn |-> "sendHTML", request |-> id ])
               /\ requests' = Append(requests, [ r EXCEPT !.armed = ~javascript ])
    /\ UNCHANGED <<javascript, open, payload, openCalls, server, isClosing, closeCalls, timers,
                   fired, sockets, connections, listeners, clbkCalls, closed>>
    /\ UNCHANGED <<fvars, tvars>>

\* next(): the callback queued by onTick( fcn ) runs
next ==
    /\ nextTicks # << >>
    /\ LET t == Head(nextTicks)
       IN \E byteLengthThrows \in BOOLEAN :
             requests' = [ requests EXCEPT ![t.request] =
                             IF t.fcn = "sendHTML"
                             THEN EndedIn(sendHTML(@), "next")
                             ELSE EndedIn(sendJavaScript(@, byteLengthThrows), "next") ]
    /\ nextTicks' = Tail(nextTicks)
    /\ UNCHANGED <<javascript, open, payload, openCalls, server, isClosing, closeCalls, timers,
                   fired, sockets, connections, listeners, clbkCalls, closed>>
    /\ UNCHANGED <<fvars, tvars>>

\* ------------------------------------------------------------- shutdown
\* socket.destroy() for every socket of the table
Destroyed(table) ==
    [ i \in 1..Len(sockets) |->
        IF table[sockets[i].key] = i
        THEN [ sockets[i] EXCEPT !.destroys = @ + 1 ]
        ELSE sockets[i] ]

\* a buggy onFinish which destroys the connections at once
onFinishDestroying(closeThrows) ==
    /\ isClosing' = TRUE
    /\ closeCalls' = closeCalls + 1
    /\ timers' = IF closeCalls >= 1 /\ closeThrows THEN timers ELSE timers + 1
    /\ sockets' = Destroyed(connections)
    /\ UNCHANGED connections

\* a buggy onFinish which schedules no force-destroy timer
onFinishNoTimer(closeThrows) ==
    /\ isClosing' = TRUE
    /\ closeCalls' = closeCalls + 1
    /\ UNCHANGED <<timers, sockets, connections>>

\* onFinish(): closeThrows is the platform's answer to close() on a server
\* which is not running (legacy platforms throw, later ones do not)
onFinish(closeThrows) ==
    /\ isClosing' = TRUE
    /\ closeCalls' = closeCalls + 1
    /\ timers' = IF closeCalls >= 1 /\ closeThrows THEN timers ELSE timers + 1
    /\ UNCHANGED <<sockets, connections>>

\* the response to request i has been handed to the platform: 'finish'
finish(i) ==
    /\ nextTicks = << >>
    /\ requests[i].status # NotSent
    /\ ~requests[i].finished
    /\ Writable
    /\ requests' = [ requests EXCEPT ![i].finished = TRUE ]
    /\ IF requests[i].armed
       THEN \E closeThrows \in BOOLEAN : onFinish(closeThrows)
       ELSE UNCHANGED <<isClosing, closeCalls, timers, sockets, connections>>
    /\ UNCHANGED <<javascript, open, payload, openCalls, server, nextTicks, fired, listeners, clbkCalls, closed>>
    /\ UNCHANGED <<fvars, tvars>>

\* a buggy clean-up which spares the sockets while a response is in progress
destroyConnectionsIdle ==
    /\ nextTicks = << >>
    /\ fired < timers
    /\ fired' = fired + 1
    /\ sockets' = IF \E j \in 1..Len(requests) : ~requests[j].finished
                  THEN sockets
                  ELSE Destroyed(connections)
    /\ UNCHANGED <<javascript, open, payload, openCalls, server, isClosing, requests, nextTicks, closeCalls, timers,
                   connections, listeners, clbkCalls, closed>>
    /\ UNCHANGED <<fvars, tvars>>

\* destroyConnections(): a force-destroy timer fires
destroyConnections ==
    /\ nextTicks = << >>
    /\ fired < timers
    /\ fired' = fired + 1
    /\ sockets' = Destroyed(connections)
    /\ UNCHANGED <<javascript, open, payload, openCalls, server, isClosing, requests, nextTicks, closeCalls, timers,
                   connections, listeners, clbkCalls, closed>>
    /\ UNCHANGED <<fvars, tvars>>

\* a buggy onClose which clears the force-destroy timers
onCloseCancels ==
    /\ nextTicks = << >>
    /\ closeCalls >= 1
    /\ ~closed
    /\ \A i \in 1..Len(sockets) : ~Open(i)
    /\ closed' = TRUE
    /\ fired' = timers
    /\ UNCHANGED <<javascript, open, payload, openCalls, server, isClosing, requests, nextTicks, closeCalls, timers,
                   sockets, connections, listeners, clbkCalls>>
    /\ UNCHANGED <<fvars, tvars>>

\* onClose(): the server emits 'close', once close() was called and every
\* connection has ended
onClose ==
    /\ nextTicks = << >>
    /\ closeCalls >= 1
    /\ ~closed
    /\ \A i \in 1..Len(sockets) : ~Open(i)
    /\ closed' = TRUE
    /\ UNCHANGED <<javascript, open, payload, openCalls, server, isClosing, requests, nextTicks, closeCalls, timers,
                   fired, sockets, connections, listeners, clbkCalls>>
    /\ UNCHANGED <<fvars, tvars>>

\* the server and clients whose connections stay open: what the server
\* answers and when it starts to close
NextDisposable ==
    \/ onServer
    \/ bootThrows
    \/ \E key \in Keys : onConnection(key)
    \/ \E url \in Urls : requestListener(url)
    \/ next
    \/ \E i \in 1..Len(requests) : finish(i)

SpecDisposable == InitDisposable /\ [][NextDisposable]_vars

\* the same, for any content
SpecPayload == InitPayload /\ [][NextDisposable]_vars

\* the same, with and without a browser to launch
SpecOpen == InitOpen /\ [][NextDisposable]_vars

\* the server, the browsers and their connections, from the first one
\* accepted to the 'close' of the server
NextLifecycle ==
    \/ onServer
    \/ \E key \in Keys : onConnection(key)
    \/ \E i \in 1..Len(sockets) : onSocketClose(i)
    \/ \E url \in PageUrls : requestListener(url)
    \/ next
    \/ \E i \in 1..Len(requests) : finish(i)
    \/ destroyConnections
    \/ onClose

SpecLifecycle == InitDisposable /\ [][NextLifecycle]_vars

\* socket i, which was destroyed or whose peer has gone, emits 'close'
Ended(i) ==
    /\ i \in 1..Len(sockets)
    /\ sockets[i].destroys > 0 \/ sockets[i].key = UndefinedKey
    /\ onSocketClose(i)

\* the platform runs the queued callbacks, fires the timers which are due,
\* and emits the 'close' of the sockets which have ended and of the server
Fairness ==
    /\ WF_vars(next)
    /\ WF_vars(destroyConnections)
    /\ \A i \in 1..MaxConnections : WF_vars(Ended(i))
    /\ WF_vars(onClose)

SpecLifecycleLive == SpecLifecycle /\ Fairness

\* ------------------------------------------------- two disposable servers
\* two calls of httpServer: each has its closure variables, and its sockets
Instances == {"first", "second"}

\* no socket under a key of a store
NoRef == <<"", 0>>

\* a store as createStore() returns it
EmptyStore == [ k \in Keys |-> NoRef ]

\* a buggy createStore which returns one store to every caller
createStoreShared(s) == "first"

\* createStore(), called by the httpServer which made server s: a new store,
\* which no other server holds
createStore(s) == s

\* the state after both calls of httpServer, the servers bound
TwoInstances ==
    /\ instances = [ s \in Instances |->
                        [ connections |-> createStore(s), isClosing |-> FALSE, closeCalls |-> 0,
                          timers |-> 0, fired |-> 0, sockets |-> << >> ] ]
    /\ stores = [ s \in Instances |-> EmptyStore ]

InitTwo == InitServer({FALSE}, {[ html |-> Boilerplate, javascript |-> Script ]}) /\ TwoInstances

\* `connections` of server s
ConnectionsOf(s) == stores[instances[s].connections]

\* socket i of server s has not emitted 'close'
OpenOf(s, i) == ~instances[s].sockets[i].closed

\* the key of the next peer which connects to server s
FreeKeysOf(s) ==
    { k \in RemoteKeys : \A i \in 1..Len(instances[s].sockets) :
                            instances[s].sockets[i].key = k => ~OpenOf(s, i) }
NextKeyOf(s) == { k \in FreeKeysOf(s) : \A j \in FreeKeysOf(s) : k[2] <= j[2] }

\* the connections accepted and the responses finished, by both servers
Accepted == Len(instances["first"].sockets) + Len(instances["second"].sockets)
Finished == instances["first"].closeCalls + instances["second"].closeCalls

\* onConnection( socket ) of server s
onConnectionOf(s, key) ==
    /\ instances[s].closeCalls = 0
    /\ Accepted < MaxConnections
    /\ key \in NextKeyOf(s) \cup {UndefinedKey}
    /\ instances' = [ instances EXCEPT ![s].sockets =
                        Append(@, [ key |-> key, closed |-> FALSE, destroys |-> 0 ]) ]
    /\ stores' = [ stores EXCEPT ![instances[s].connections][key] =
                        <<s, Len(instances[s].sockets) + 1>> ]
    /\ UNCHANGED <<fvars, svars>>

\* onClose() of onConnection of server s: its socket i emits 'close'
onSocketCloseOf(s, i) ==
    /\ OpenOf(s, i)
    /\ instances' = [ instances EXCEPT ![s].sockets[i].closed = TRUE ]
    /\ stores' = [ stores EXCEPT ![instances[s].connections][instances[s].sockets[i].key] = NoRef ]
    /\ UNCHANGED <<fvars, svars>>

\* onFinish() of server s: a response of s, sent on an open connection,
\* which onFinish listens to has finished
onFinishOf(s, closeThrows) ==
    /\ Finished < MaxRequests
    /\ \E i \in 1..Len(instances[s].sockets) : OpenOf(s, i)
    /\ instances' = [ instances EXCEPT
                        ![s].isClosing = TRUE,
                        ![s].closeCalls = @ + 1,
                        ![s].timers = IF instances[s].closeCalls >= 1 /\ closeThrows
                                      THEN @ ELSE @ + 1 ]
    /\ UNCHANGED <<fvars, svars, stores>>

\* destroyConnections() of server s: a timer of s fires, every socket in
\* `connections` of s is destroyed
destroyConnectionsOf(s) ==
    /\ instances[s].fired < instances[s].timers
    /\ instances' =
        [ t \in Instances |->
            [ instances[t] EXCEPT
                !.fired = IF t = s THEN @ + 1 ELSE @,
                !.sockets = [ i \in 1..Len(@) |->
                                IF ConnectionsOf(s)[@[i].key] = <<t, i>>
                                THEN [ @[i] EXCEPT !.destroys = @ + 1 ]
                                ELSE @[i] ] ] ]
    /\ UNCHANGED <<fvars, svars, stores>>

\* two servers, the peers which connect to either, and the responses
\* which make either close
NextTwo ==
    \/ \E s \in Instances, key \in Keys : onConnectionOf(s, key)
    \/ \E s \in Instances : \E i \in 1..Len(instances[s].sockets) : onSocketCloseOf(s, i)
    \/ \E s \in Instances, closeThrows \in BOOLEAN : onFinishOf(s, closeThrows)
    \/ \E s \in Instances : destroyConnectionsOf(s)

SpecTwo == InitTwo /\ [][NextTwo]_vars

\* ================================================================ claims
Servers == 1..Len(servers)

\* the ports lo, lo+1, ..., hi in ascending order
Ascending(lo, hi) == [ k \in 1..(hi - lo + 1) |-> lo + k - 1 ]

\* the error events of server i which answer one of its listen calls
Answers(i) == { k \in 1..Len(servers[i].errors) : servers[i].errors[k].attempt # NoPort }

\* the error event was raised by the handler as it was received
Raised(e) == e.thrown = e.error /\ e.relisten = NoPort

\* C1: with ports P..M-1 occupied and M free (M >= P), an invocation which
\* binds is bound to port M, after exactly M-P+1 listen calls on the ports
\* P, P+1, ..., M in ascending order.
C1_HuntsToMax ==
    ( /\ ConfigPort # 0
      /\ max >= ConfigPort
      /\ ConfigPort..(max - 1) \subseteq occupied
      /\ max \notin occupied )
    => \A i \in Servers :
          Bound(servers[i]) =>
             /\ servers[i].address = max
             /\ servers[i].listens = Ascending(ConfigPort, max)

\* C2: every invocation of the bind procedure issues its first listen call
\* on the configured port.
C2_FirstListenOnConfiguredPort ==
    \A i \in Servers : servers[i].listens[1] = ConfigPort

\* C3: when the configured port P is occupied and some port in (P, maxport]
\* is free, an invocation which binds is bound to the lowest free port q with
\* P < q <= maxport: every port in [P, q) was attempted and reported
\* address-in-use, and no port above q was attempted.
C3_BindsLowestFree ==
    ( /\ ConfigPort \in occupied
      /\ \E r \in (ConfigPort + 1)..max : r \notin occupied )
    => \A i \in Servers :
          Bound(servers[i]) =>
             LET s == servers[i]
                 q == s.address
             IN /\ ConfigPort < q
                /\ q <= max
                /\ \A r \in ConfigPort..(q - 1) :
                      \E k \in Answers(i) : /\ s.errors[k].attempt = r
                                            /\ s.errors[k].error.code = "EADDRINUSE"
                /\ \A r \in (ConfigPort + 1)..(q - 1) : r \in InUse
                /\ \A k \in 1..Len(s.listens) : s.listens[k] <= q

\* C4: with maxport M < port P an invocation makes exactly one listen call,
\* at port P, and an address-in-use report for it is raised without a second
\* listen call.
C4_SingleAttemptBelowPort ==
    ( max < ConfigPort )
    => \A i \in Servers :
          LET s == servers[i]
          IN /\ s.listens = << ConfigPort >>
             /\ \A k \in Answers(i) : Raised(s.errors[k])

\* C5: after a listen call on port p fails, a listen call on port p+1 is
\* issued if and only if the error code is EADDRINUSE and p < maxport.
C5_RetryGuard ==
    \A i \in Servers : \A k \in Answers(i) :
        LET e == servers[i].errors[k]
        IN ( e.relisten = e.attempt + 1 )
              <=> ( e.error.code = "EADDRINUSE" /\ e.attempt < max )

\* C6: a bind attempt on port p ends in failure exactly when the error is
\* EADDRINUSE with p >= maxport or is of any other kind; the same error is
\* then raised, no further listen call is issued and the completion callback
\* is not invoked for it.
C6_FailureGuard ==
    \A i \in Servers : \A k \in Answers(i) :
        LET e == servers[i].errors[k]
            fatal == \/ ( e.error.code = "EADDRINUSE" /\ e.attempt >= max )
                     \/ e.error.code # "EADDRINUSE"
        IN /\ Raised(e) <=> fatal
           /\ fatal => /\ e.thrown = e.error
                       /\ e.relisten = NoPort
                       /\ \A d \in 1..Len(servers[i].done) : servers[i].done[d].error # e.error

C8_CallbackErrorIsNull ==
    \A i \in Servers : \A d \in 1..Len(servers[i].done) :
        servers[i].done[d].error = Null

\* C8 witness: one invocation has called back and an error has been raised
C8_Witness ==
    /\ \E i \in Servers : Len(servers[i].done) > 0
    /\ \E i \in Servers : \E k \in 1..Len(servers[i].errors) :
          /\ Raised(servers[i].errors[k])
          /\ servers[i].errors[k].error.code = "EADDRINUSE"

\* C9: Bound and Failed are terminal: no later event on a bound or failed
\* server causes another listen call or a change of the candidate port.
C9_TerminalStates ==
    [][ \A i \in Servers :
           ( /\ Bound(servers[i]) \/ Failed(servers[i])
             /\ servers'[i] # servers[i] )
           => /\ servers'[i].listens = servers[i].listens
              /\ port' = port ]_vars

\* C10: with maxport >= port, no listen call is ever issued for a port
\* greater than maxport, after any sequence of invocations.
C10_NeverAboveMax ==
    ( max >= ConfigPort )
    => \A i \in Servers : \A k \in 1..Len(servers[i].listens) :
          servers[i].listens[k] <= max

\* C11: within one invocation each retry's port is exactly one more than the
\* port of that invocation's previous attempt, also when the address-in-use
\* events of two invocations in progress interleave.
C11_RetryIncrementsByOne ==
    \A i \in Servers : \A k \in 2..Len(servers[i].listens) :
        servers[i].listens[k] = servers[i].listens[k - 1] + 1

\* C12: bind attempts of one server are strictly sequential: a further listen
\* call is issued only after the previous listen call of that server has
\* reported an error.
C12_AttemptsSequential ==
    \A i \in Servers : \A k \in 2..Len(servers[i].listens) :
        \E e \in Answers(i) :
            /\ servers[i].errors[e].attempt = servers[i].listens[k - 1]
            /\ e >= k - 1

\* C13: a call of the bind procedure with an argument which is not a function
\* throws a TypeError before any server is created, any listener registered
\* or any listen call issued, and leaves the candidate port unchanged.
C13_BadCallbackThrowsFirst ==
    [][ typeErrors' # typeErrors
           => /\ typeErrors' = typeErrors + 1
              /\ servers' = servers
              /\ port' = port ]_vars

\* C13 witness: the bind procedure has thrown a TypeError after an earlier
\* call had created a server and moved the candidate port
C13_Witness ==
    /\ typeErrors > 0
    /\ Len(servers) > 0
    /\ port # ConfigPort

\* C14: when the options fail validation, or a second argument which is not
\* a function is given, factory() throws and returns no bind procedure: no
\* server is created and no listen call is issued for that configuration.
C14_ConfigurationErrorsFailFast ==
    ~factoryArgsValid
       => /\ factoryError # "none"
          /\ servers = << >>
          /\ typeErrors = 0

\* C14 witness: factory() was called with arguments which are not valid
C14_Witness ==
    ~factoryArgsValid /\ factoryError = "TypeError"

\* C15: an 'error' event whose code is not EADDRINUSE is rethrown by the
\* error listener at any point of the server's lifetime (before or after it
\* is bound); it causes no listen call and leaves the candidate port unchanged.
C15_OtherErrorsRethrown ==
    [][ \A i \in Servers :
           ( /\ Len(servers'[i].errors) = Len(servers[i].errors) + 1
             /\ Last(servers'[i].errors).error.code # "EADDRINUSE" )
           => /\ Last(servers'[i].errors).thrown = Last(servers'[i].errors).error
              /\ servers'[i].listens = servers[i].listens
              /\ ~servers'[i].pending
              /\ port' = port ]_vars

\* C15 witness: one server has rethrown such an error before it was bound,
\* another one after it was bound, while retries were still possible
C15_Witness ==
    /\ port < max
    /\ \E i \in Servers : \E k \in 1..Len(servers[i].errors) :
          /\ servers[i].errors[k].error.code # "EADDRINUSE"
          /\ ~servers[i].errors[k].bound
    /\ \E i \in Servers : \E k \in 1..Len(servers[i].errors) :
          /\ servers[i].errors[k].error.code # "EADDRINUSE"
          /\ servers[i].errors[k].bound

\* C16: when no maxport option is given, maxport equals port: an EADDRINUSE
\* error is thrown without any retry and every invocation makes exactly one
\* listen call.
C16_NoMaxportNoRetry ==
    ( factoryError = "none" /\ opts.maxport = Undef )
    => /\ max = ConfigPort
       /\ \A i \in Servers :
             /\ Len(servers[i].listens) = 1
             /\ \A k \in 1..Len(servers[i].errors) :
                   servers[i].errors[k].error.code = "EADDRINUSE"
                      => Raised(servers[i].errors[k])

\* C16 witness: without a maxport option, the listen call on the configured
\* port has reported EADDRINUSE and the error was thrown
C16_Witness ==
    /\ factoryError = "none"
    /\ opts.maxport = Undef
    /\ \E i \in Servers : \E k \in Answers(i) :
          /\ servers[i].errors[k].attempt = ConfigPort
          /\ servers[i].errors[k].error.code = "EADDRINUSE"
          /\ Raised(servers[i].errors[k])

\* C17 as stated: every listen call uses the hostname option when present,
\* otherwise the address option when present, otherwise the default address.
C17_HostWhenPresent ==
    \A i \in Servers : \A k \in 1..Len(servers[i].hosts) :
        servers[i].hosts[k] =
            ( IF opts.hostname # NoString THEN opts.hostname
              ELSE IF opts.address # NoString THEN opts.address
              ELSE DefaultAddress )

\* C17 amended: every listen call of an invocation uses the same resolved
\* host, which is the hostname option when present and not empty, otherwise
\* the address option when present and not empty, otherwise the default
\* address; and each attempt issues exactly one listen call, with the current
\* candidate port.
C17_SameResolvedHost ==
    /\ [] ( \A i \in Servers :
              /\ Len(servers[i].hosts) = Len(servers[i].listens)
              /\ \A k \in 1..Len(servers[i].hosts) :
                    servers[i].hosts[k] =
                        ( IF opts.hostname \notin {NoString, ""} THEN opts.hostname
                          ELSE IF opts.address \notin {NoString, ""} THEN opts.address
                          ELSE DefaultAddress ) )
    /\ [][ \A i \in 1..Len(servers') :
              LET old == IF i <= Len(servers) THEN servers[i].listens ELSE << >>
              IN servers'[i].listens # old
                    => servers'[i].listens = Append(old, port') ]_vars

\* C17 witness: a server has made a retry under options which give both a
\* hostname and an address
C17_Witness ==
    /\ Truthy(opts.hostname)
    /\ Truthy(opts.address)
    /\ \E i \in Servers : Len(servers[i].hosts) >= 2

\* C18: no listeners leak across retries: however many bind attempts an
\* invocation makes, its server carries exactly one error listener and at
\* most one listening listener registered by the bind procedure, and servers
\* are created one per invocation, never by a retry.
C18_NoListenerLeak ==
    /\ [] ( \A i \in Servers :
              /\ servers[i].errorListeners = 1
              /\ servers[i].listeningListeners <= 1 )
    /\ [][ Len(servers') # Len(servers)
              => /\ Len(servers') = Len(servers) + 1
                 /\ \A i \in Servers : servers'[i] = servers[i] ]_vars

\* C18 witness: a server is bound after a retry
C18_Witness ==
    \E i \in Servers :
        /\ Len(servers[i].listens) >= 2
        /\ Bound(servers[i])
        /\ servers[i].listeningListeners = 0

\* the requests received so far
Requests == 1..Len(requests)

\* the step is the 'finish' of the response to request i
Finishes(i) == i \in Requests /\ ~requests[i].finished /\ requests'[i].finished

C20_FinishingAtMostOnce ==
    closeCalls <= 1 /\ timers <= 1

\* the paths of the HTML page
HtmlUrls == {"/", "/index.html"}

\* the step is a Finishing transition: onFinish ran
Finishing == closeCalls' # closeCalls \/ timers' # timers \/ isClosing' # isClosing

\* C21: disposable server configured with JavaScript content: the finish of
\* an HTML response (`/` or `/index.html`) never triggers Finishing, for any
\* number of HTML requests; only the finish of a `/bundle.js` response does.
C21_OnlyBundleFinishes ==
    [][ javascript =>
          /\ \A i \in Requests :
                ( requests[i].url \in HtmlUrls /\ Finishes(i) ) => ~Finishing
          /\ Finishing => \E i \in Requests :
                             requests[i].url = "/bundle.js" /\ Finishes(i) ]_vars

\* C21 witness: an HTML response has finished and the server still served
\* the bundle, whose response then finished and closed the server
C21_Witness ==
    /\ javascript
    /\ closeCalls = 1
    /\ \E i, k \in Requests :
          /\ i < k
          /\ requests[i].url \in HtmlUrls /\ requests[i].finished
          /\ requests[k].url = "/bundle.js" /\ requests[k].finished /\ ~requests[k].closing

\* C22: on a disposable server without JavaScript content a request for
\* `/bundle.js` neither arms nor triggers the Finishing transition.
C22_BundleQualifiesOnlyWithJavaScript ==
    ~javascript =>
        \A i \in Requests : requests[i].url = "/bundle.js" => ~requests[i].armed

\* C23: once the server is in Finishing, every request received afterwards,
\* whatever its path, is answered with status 503 and an empty body, in the
\* listener itself, and never with 200 or 404.
C23_UnavailableWhileClosing ==
    /\ isClosing <=> closeCalls >= 1
    /\ \A i \in Requests :
          requests[i].closing
             => /\ requests[i].status = 503
                /\ requests[i].body = Empty
                /\ \A k \in 1..Len(nextTicks) : nextTicks[k].request # i

\* C23 witness: after the transition a request for the bundle got 503
C23_Witness ==
    /\ isClosing
    /\ \E i \in Requests :
          /\ requests[i].closing /\ requests[i].url = "/bundle.js"
          /\ requests[i].status = 503 /\ requests[i].body = Empty

\* the response to request i has been dealt with
Answered(i) == \A k \in 1..Len(nextTicks) : nextTicks[k].request # i

\* C24: routing while Serving: `/` and `/index.html` are answered 200 with
\* the HTML payload and Content-Type text/html, `/bundle.js` 200 with the
\* JavaScript payload and Content-Type text/javascript, any other path 404
\* with an empty body; a 404 response never triggers Finishing.
C24_Routing ==
    \A i \in Requests :
        ( ~requests[i].closing /\ Answered(i) ) =>
            LET r == requests[i]
            IN IF r.url \in HtmlUrls
               THEN r.status = 200 /\ r.type = "text/html" /\ r.body = "opts.html"
               ELSE IF r.url = "/bundle.js"
               THEN r.status = 200 /\ r.type = "text/javascript" /\ r.body = "opts.javascript"
               ELSE r.status = 404 /\ r.body = Empty /\ ~r.armed

\* C25: every response (200 HTML, 200 JavaScript, 404 and 503) is emitted on
\* the next scheduler tick after the request is received, never
\* synchronously inside the request-received callback.
C25_ResponsesOnNextTick ==
    \A i \in Requests :
        requests[i].status # NotSent => requests[i].endedIn = "next"

\* the connections accepted so far
Sockets == 1..Len(sockets)

\* socket i is the entry of the table under its key
Tracked(i) == connections[sockets[i].key] = i

\* C26: on the Finishing transition the server's close is called in the same
\* step, before any connection is destroyed; connections are destroyed only
\* by a grace timer scheduled by that transition, so that no connection is
\* destroyed while the server is Serving or before a grace timer has fired.
C26_DestroyOnlyByGraceTimer ==
    /\ isClosing <=> closeCalls >= 1
    /\ timers <= closeCalls
    /\ fired <= timers
    /\ timers >= 1 <=> closeCalls >= 1
    /\ \A i \in Sockets : sockets[i].destroys <= fired

\* C26 witness: the grace timer has fired and destroyed a connection
C26_Witness ==
    /\ closeCalls = 1 /\ fired = 1
    /\ \E i \in Sockets : sockets[i].destroys = 1

\* C27: shutdown does not hang: once the server is in Finishing, then under
\* fair scheduling of the grace timer and of the close events, every
\* connection is eventually closed, the table eventually becomes empty, and
\* the server eventually reaches Closed.
C27_ShutdownCompletes ==
    isClosing ~> ( /\ closed
                   /\ \A i \in Sockets : ~Open(i)
                   /\ \A k \in Keys : connections[k] = NoSocket )

\* C27 witness: the server has closed after a connection which had stayed
\* open was destroyed by the grace timer
C27_Witness ==
    /\ closed
    /\ \E i \in Sockets :
          sockets[i].key # UndefinedKey /\ sockets[i].destroys >= 1 /\ ~Open(i)


\* C28: the table holds an entry for every accepted connection which has not
\* yet emitted close, and no entry for a connection which has.
C28_ConnectionTable ==
    \A i \in Sockets :
        IF Open(i) THEN Tracked(i) ELSE \A k \in Keys : connections[k] # i

\* the step is the firing of a grace timer
Fires == fired' = fired + 1

\* C29: closing does not abort in-flight request handling (the Finishing
\* transition touches no connection and no other request), and the forced
\* destruction is unconditional: when a grace timer fires, every connection
\* which is in the table at that moment is destroyed exactly once, whether
\* or not a response is still in progress, and connections which closed
\* before are not destroyed.
C29_ForcedDestruction ==
    /\ [][ Fires =>
             /\ Len(sockets') = Len(sockets)
             /\ \A i \in Sockets :
                   /\ Tracked(i) => sockets'[i].destroys = sockets[i].destroys + 1
                   /\ ~Tracked(i) => sockets'[i] = sockets[i]
                   /\ ~Open(i) => sockets'[i] = sockets[i]
             /\ requests' = requests ]_vars
    /\ [][ Finishing =>
             /\ sockets' = sockets /\ connections' = connections
             /\ nextTicks' = nextTicks
             /\ \A j \in Requests :
                   ~Finishes(j) => requests'[j] = requests[j] ]_vars

\* C29 witness: a grace timer has fired while a response was in progress,
\* the connection was destroyed, another one had closed before and was not
C29_Witness ==
    /\ fired = 1
    /\ \E j \in Requests : requests[j].status = 200 /\ ~requests[j].finished
    /\ \E i, k \in Sockets :
          /\ sockets[i].destroys = 1
          /\ ~Open(k) /\ sockets[k].destroys = 0

C31_OpensOnceWhenBound ==
    /\ Len(openCalls) = IF open /\ server = "bound" THEN 1 ELSE 0
    /\ \A c \in 1..Len(openCalls) :
        /\ openCalls[c].server = "bound"
        /\ openCalls[c].addr \in Addresses
        /\ openCalls[c].url = <<"http://", openCalls[c].addr.address, ":", openCalls[c].addr.port>>

C31_Witness ==
    /\ open
    /\ Len(openCalls) = 1
    /\ \E i \in Requests : requests[i].finished /\ requests[i].status = 200


\* the bytes which were sent as the body of request i's response
BodyBytes(i) ==
    IF requests[i].body = "opts.html" THEN payload.html
    ELSE IF requests[i].body = "opts.javascript" THEN payload.javascript
    ELSE << >>

\* C32: the Content-Length of every 200 response is the number of bytes of
\* the payload sent as its body
C32_ContentLength ==
    \A i \in Requests :
        requests[i].status = 200 => requests[i].length = Len(BodyBytes(i))


\* C33: the 'close' of the server only is observed: the step which closes
\* the server leaves the connection table and the closing flag as they are,
\* cancels no force-destroy timer, and calls neither close() nor destroy()
C33_CloseIsObservational ==
    [][ closed' # closed =>
            /\ connections' = connections
            /\ isClosing' = isClosing
            /\ timers' = timers /\ fired' = fired
            /\ closeCalls' = closeCalls
            /\ sockets' = sockets ]_vars

C33_Witness ==
    /\ closed
    /\ isClosing
    /\ fired < timers
    /\ \E i \in Sockets : sockets[i].closed


\* the step is an event of server s: it changes what s holds
EventOf(s) == instances'[s] # instances[s]

\* C34: of two servers each has its own table: an event of one server (a
\* connection, the close of a socket, the finish of a response, the firing
\* of its timer) leaves the table of the other as it is and destroys no
\* connection of the other
C34_OwnTable ==
    [][ \A s \in Instances : \A t \in Instances \ {s} :
            EventOf(s) =>
                /\ stores'[instances'[t].connections] = stores[instances[t].connections]
                /\ instances'[t] = instances[t] ]_vars

C34_Witness ==
    /\ \E k \in Keys :
        /\ ConnectionsOf("first")[k] = <<"first", 1>>
        /\ ConnectionsOf("second")[k] = <<"second", 1>>
    /\ instances["first"].fired >= 1
    /\ instances["first"].sockets[1].destroys >= 1
    /\ instances["second"].sockets[1].destroys = 0
    /\ ~instances["second"].isClosing


\* the response to request i is one whose finish is to close the server:
\* the script when there is one, the page otherwise
Qualifies(i) ==
    IF javascript THEN requests[i].url = "/bundle.js" ELSE requests[i].url \in HtmlUrls

\* C35: the closing flag is false until a qualifying response finishes, it
\* is set by that finish only, and never cleared; no request received once
\* it is set is answered with status 200
C35_MonotonicLifecycle ==
    [][ /\ isClosing => isClosing'
        /\ closed => closed'
        /\ ( ~isClosing /\ isClosing' ) => \E i \in Requests : Finishes(i) /\ Qualifies(i)
        /\ \A i \in 1..Len(requests') : requests'[i].closing => requests'[i].status # 200 ]_vars

\* C36: a request for the page or the script which was received while the
\* server was serving is answered, when its callback has run, with status
\* 200 and the payload, and never with status 503
C36_CheckAtReceipt ==
    \A i \in Requests :
        ( ~requests[i].closing /\ requests[i].url \in HtmlUrls \cup {"/bundle.js"} ) =>
            /\ requests[i].status # 503
            /\ Answered(i) =>
                /\ requests[i].status = 200
                /\ requests[i].body = IF requests[i].url = "/bundle.js" THEN "opts.javascript"
                                      ELSE "opts.html"

\* C38: a server which has JavaScript to serve and has received no request
\* for `/bundle.js` is serving: close() was not called and no force-destroy
\* timer was scheduled, whatever other requests it answered
C38_ServingUntilBundleRequested ==
    ( javascript /\ \A i \in Requests : requests[i].url # "/bundle.js" ) =>
        ~isClosing /\ closeCalls = 0 /\ timers = 0

C38_Witness ==
    /\ javascript
    /\ closeCalls = 0
    /\ \E i, k \in Requests :
          /\ requests[i].url \in HtmlUrls /\ requests[i].status = 200 /\ requests[i].finished
          /\ requests[k].status = 404 /\ requests[k].finished


\* the step is the handling by server i of an address-in-use error
InUseEvent(i) ==
    /\ i \in Servers
    /\ Len(servers'[i].errors) = Len(servers[i].errors) + 1
    /\ Last(servers'[i].errors).error.code = "EADDRINUSE"

====
